---- MODULE Spec2Model ----
(***************************************************************************)
(* Console membership and scheduling manager of a fitness club             *)
(* (fitness_project/app/main.py over the schema of                         *)
(* fitness_project/models/models.py).                                      *)
(*                                                                         *)
(* The state is the relational store (the tables, their serial sequences,  *)
(* the derived view and the class-capacity trigger), the unit of work of   *)
(* the one shared ORM session, and the position of the console process in  *)
(* its menus.  Every menu operation is one action; what the operator types *)
(* is drawn from small sets of input texts.                                *)
(***************************************************************************)
EXTENDS Integers, Sequences, FiniteSets, TLC

\* ------------------------------------------------------------------ bounds

\* A table's sequence hands out at most MaxId values, so a table holds at
\* most MaxId rows.
MaxId == 2

\* The sequences of the tables the menus write to hand out at most MaxRows
\* values together, so these tables hold at most MaxRows rows.
MaxRows == 6

\* ------------------------------------------------------------- input texts

\* Python None.
None == "<None>"

\* What the operator can type where a number is asked for: decimal digits or
\* other text.
Digits(n) == [kind |-> "digits", n |-> n]
Alpha == [kind |-> "alpha", n |-> 0]

\* int(text): the number the digits denote; anything else raises ValueError.
ParseInt(t) ==
    IF t.kind = "digits"
    THEN [ok |-> TRUE, v |-> t.n]
    ELSE [ok |-> FALSE, v |-> 0]

\* Date-time texts: the instant they denote, written with or without leading
\* zeros ("2025-01-01 09:00", "2025-1-1 9:00"), or text that is no date-time.
TimeText(fmt, t) == [fmt |-> fmt, t |-> t]

\* datetime.strptime(text, "%Y-%m-%d %H:%M"): both spellings of an instant
\* parse to the same value; other text raises ValueError.
ParseTime(s) ==
    IF s.fmt \in {"zeros", "plain"}
    THEN [ok |-> TRUE, v |-> s.t]
    ELSE [ok |-> FALSE, v |-> 0]

\* input(...) or None
OrNone(s) == IF s = "" THEN None ELSE s

\* Strip without its effect: the text as typed.
Unstripped(s) == s

\* str.strip() on the texts of the model.
Strip(s) ==
    CASE s = " " -> ""
      [] s = " bob " -> "bob"
      [] OTHER -> s

\* str.lower() on the texts of the model.
Lower(s) ==
    CASE s = "YES" -> "yes"
      [] s = "Yes" -> "yes"
      [] OTHER -> s

\* float(text) stored in a Numeric(6, 2) column, in hundredths.
ParseFloat(s) ==
    CASE s = "70.5" -> [ok |-> TRUE, v |-> 7050]
      [] OTHER -> [ok |-> FALSE, v |-> 0]

\* ------------------------------------------------------------------- state

VARIABLES
    pc,        \* where the console process is
    tables,    \* TRUE when the nine tables exist
    view,      \* TRUE when the view MemberHealthSummary exists
    trigger,   \* TRUE when trg_check_class_capacity is installed on "Class"
    db,        \* committed rows, one set of rows per table
    seq,       \* next value of each table's serial sequence
    pending,   \* the session's unit of work: writes not yet committed
    txn,       \* the transaction of the session: "none", "open" while the
               \* session is inside one and holds locks on the tables it
               \* has read or written, "failed" after a commit that raised
               \* until the session is rolled back
    lower,     \* the relations with lower-case names the database holds,
               \* which the program does not create: whether member and
               \* healthmetric are there, and the relation room
    last       \* the operation that ran last and how it ended

vars == <<pc, tables, view, trigger, db, seq, pending, txn, lower, last>>

\* No relation of that name.
Absent == [exists |-> FALSE, rows |-> {}]

TableNames ==
    {"Member", "Trainer", "Admin", "Room", "Class", "FitnessGoal",
     "HealthMetric", "PTSession", "ClassEnrollment"}

EmptyDb == [t \in TableNames |-> {}]

FreshSeq == [t \in TableNames |-> 1]

\* Primary key column of each table.
Key(t) ==
    CASE t = "Member" -> "member_id"
      [] t = "Trainer" -> "trainer_id"
      [] t = "Admin" -> "admin_id"
      [] t = "Room" -> "room_id"
      [] t = "Class" -> "class_id"
      [] t = "FitnessGoal" -> "goal_id"
      [] t = "HealthMetric" -> "metric_id"
      [] t = "PTSession" -> "session_id"
      [] t = "ClassEnrollment" -> "enrollment_id"

\* ------------------------------------------------------ the relational store

\* Rows of table t whose column c equals v.
Rows(d, t, c, v) == {x \in d[t] : x[c] = v}

\* The PL/pgSQL function check_class_capacity() run for the row new: TRUE when
\* it raises.  Its SELECT names the table as Room without quotes, which is the
\* relation room, not the table "Room" of the models; rel is that relation.
\* room_capacity stays NULL when no row has NEW.room_id, and a comparison
\* with NULL is not true.
check_class_capacity(rel, new) ==
    \E room \in {x \in rel.rows : x.room_id = new.room_id} :
        new.capacity > room.capacity

\* A column that was not declared unique.
NotUnique(d, t, c, v) == TRUE

\* unique=True on column c of table t: no stored row has the value v.
UniqueColumn(d, t, c, v) == Rows(d, t, c, v) = {}

\* A column that references nothing.
NoForeignKey(d, t, c, v) == TRUE

\* ForeignKey: some row of table t has the value v in its key column c.
ForeignKey(d, t, c, v) == Rows(d, t, c, v) # {}

\* UniqueConstraint('room_id', 'class_time')
uq_room_time(d, r) ==
    ~\E x \in d["Class"] :
        x.room_id = r.room_id /\ x.class_time = r.class_time

\* The unique constraint on the wrong pair of columns: member and time.
uq_member_time(d, r) ==
    ~\E x \in d["PTSession"] :
        x.member_id = r.member_id /\ x.session_time = r.session_time

\* A PTSession table without its unique constraint.
no_uq_trainer_time(d, r) == TRUE

\* UniqueConstraint('trainer_id', 'session_time')
uq_trainer_time(d, r) ==
    ~\E x \in d["PTSession"] :
        x.trainer_id = r.trainer_id /\ x.session_time = r.session_time

\* A ClassEnrollment table that also refuses a row for a class that is full.
uq_member_class_within_capacity(d, r) ==
    /\ ~\E x \in d["ClassEnrollment"] :
           x.member_id = r.member_id /\ x.class_id = r.class_id
    /\ \A c \in Rows(d, "Class", "class_id", r.class_id) :
           Cardinality(Rows(d, "ClassEnrollment", "class_id", r.class_id))
               < c.capacity

\* UniqueConstraint('member_id', 'class_id')
uq_member_class(d, r) ==
    ~\E x \in d["ClassEnrollment"] :
        x.member_id = r.member_id /\ x.class_id = r.class_id

\* CheckConstraint('capacity > 0') of Room and of Class.
check_capacity_positive(r) == r.capacity > 0

\* What the store answers to INSERT of row r (without its key) into table t:
\* "" when the row is accepted, else the class of the error raised.  A
\* BEFORE INSERT trigger runs before the constraints of the table are
\* checked; foreign keys are checked last.  The trigger's function fails when
\* the relation it reads does not exist.
InsertError(d, trig, rel, t, r) ==
    CASE t = "Member" ->
            IF ~UniqueColumn(d, "Member", "email", r.email)
            THEN "IntegrityError" ELSE ""
      [] t = "Trainer" ->
            IF ~UniqueColumn(d, "Trainer", "email", r.email)
            THEN "IntegrityError" ELSE ""
      [] t = "Admin" ->
            IF \/ ~UniqueColumn(d, "Admin", "username", r.username)
               \/ ~UniqueColumn(d, "Admin", "email", r.email)
            THEN "IntegrityError" ELSE ""
      [] t = "Room" ->
            IF \/ ~check_capacity_positive(r)
               \/ ~UniqueColumn(d, "Room", "name", r.name)
            THEN "IntegrityError" ELSE ""
      [] t = "Class" ->
            IF trig /\ ~rel.exists THEN "ProgrammingError"
            ELSE IF trig /\ check_class_capacity(rel, r) THEN "InternalError"
            ELSE IF \/ ~check_capacity_positive(r)
                    \/ ~uq_room_time(d, r)
                    \/ ~ForeignKey(d, "Trainer", "trainer_id", r.trainer_id)
                    \/ ~ForeignKey(d, "Room", "room_id", r.room_id)
                 THEN "IntegrityError" ELSE ""
      [] t = "PTSession" ->
            IF \/ ~uq_trainer_time(d, r)
               \/ ~ForeignKey(d, "Member", "member_id", r.member_id)
               \/ ~ForeignKey(d, "Trainer", "trainer_id", r.trainer_id)
            THEN "IntegrityError" ELSE ""
      [] t = "ClassEnrollment" ->
            IF \/ ~uq_member_class(d, r)
               \/ ~ForeignKey(d, "Member", "member_id", r.member_id)
               \/ ~ForeignKey(d, "Class", "class_id", r.class_id)
            THEN "IntegrityError" ELSE ""
      [] t = "HealthMetric" ->
            IF ~ForeignKey(d, "Member", "member_id", r.member_id)
            THEN "IntegrityError" ELSE ""
      [] OTHER -> ""

\* Row r of table t with its key column set to id.
WithKey(t, r, id) ==
    [c \in DOMAIN r \cup {Key(t)} |-> IF c = Key(t) THEN id ELSE r[c]]

\* UPDATE "Member": the columns the session found changed.
UpdateMember(d, w) ==
    [d EXCEPT !["Member"] =
        {IF x.member_id = w.member_id
         THEN [x EXCEPT !.name = IF w.name # None THEN w.name ELSE @,
                        !.phone = IF w.phone # None THEN w.phone ELSE @]
         ELSE x : x \in @}]

\* ------------------------------------------------------------ the session

\* session.add(obj) and attribute assignment: writes held by the session
\* until it commits.
Insert(t, r) == [kind |-> "insert", table |-> t, row |-> r]
Update(id, name, phone) ==
    [kind |-> "update", table |-> "Member", member_id |-> id,
     name |-> name, phone |-> phone]

\* The flush of the writes ws in order, inside one transaction: the store and
\* the sequences after it, and the first error.  An INSERT takes the next
\* value of its table's sequence before the row is checked, and a sequence
\* does not give a value back when the row is refused.  Nothing can be written
\* when the tables do not exist.
RECURSIVE Flush(_, _, _, _, _, _)
Flush(ws, d, sq, exist, trig, rel) ==
    IF ws = <<>> THEN [err |-> "", db |-> d, seq |-> sq]
    ELSE IF ~exist THEN [err |-> "ProgrammingError", db |-> d, seq |-> sq]
    ELSE LET w == Head(ws) IN
         IF w.kind = "insert"
         THEN LET e == InsertError(d, trig, rel, w.table, w.row)
                  sq1 == [sq EXCEPT ![w.table] = @ + 1]
              IN  IF e # "" THEN [err |-> e, db |-> d, seq |-> sq1]
                  ELSE Flush(Tail(ws),
                             [d EXCEPT ![w.table] =
                                 @ \cup {WithKey(w.table, w.row, sq[w.table])}],
                             sq1, exist, trig, rel)
         ELSE Flush(Tail(ws), UpdateMember(d, w), sq, exist, trig, rel)

\* A handler that does not roll back: the unit of work stays.
KeepUnitOfWork(ws) == ws

\* session.rollback(): the unit of work is discarded.
Rollback(ws) == <<>>

\* session.commit(): on success the flushed writes become the committed rows
\* and the unit of work is empty; on an error the transaction is undone, the
\* committed rows stay, the sequences keep what the inserts took, and the
\* handler is left to roll the session back.  A session that is waiting for
\* a rollback refuses the commit before any statement is sent.
Commit(ws) ==
    LET f == Flush(ws, db, seq, tables, trigger, lower.room) IN
    IF txn = "failed"
    THEN [err |-> "PendingRollbackError", db |-> db, seq |-> seq,
          pending |-> ws]
    ELSE IF f.err = ""
    THEN [err |-> "", db |-> f.db, seq |-> f.seq, pending |-> <<>>]
    ELSE [err |-> f.err, db |-> db, seq |-> f.seq, pending |-> ws]

\* A query of the session raises: the tables are gone, or the session is
\* waiting for a rollback.
QueryRaises == ~tables \/ txn = "failed"

\* The outcome a handler reports for the error class of a failed commit.
Outcome(err) ==
    CASE err = "" -> "ok"
      [] err = "IntegrityError" -> "IntegrityViolation"
      [] OTHER -> "UnexpectedError"

\* ---------------------------------------------------- what the operator types

\* Largest capacity the operator types.
MaxCap == 2

IdTexts == {Digits(n) : n \in 1..MaxId} \cup {Alpha}
CapTexts == {Digits(n) : n \in 0..MaxCap} \cup {Alpha}
TimeTexts == {TimeText("zeros", 1), TimeText("plain", 1), TimeText("bad", 0)}
ClassTimeTexts ==
    {TimeText("zeros", 1), TimeText("zeros", 2), TimeText("bad", 0)}
\* Registration forms: name, email, date of birth, gender, phone.
RegistrationForms ==
    {<<"ann", "a@x", "1990-1-1", "f", "">>,
     <<"ann", "b@x", "soon", "", "555">>,
     <<"cy", "b@x", "", "", "">>}
NewNameTexts == {"", " ", " bob "}
NewPhoneTexts == {"", "777"}
MetricTexts == {"70.5", "heavy"}
TrainerEmails == {"t@x"}
RoomNames == {"Studio A"}
ConfirmTexts == {"yes", "YES", "no"}
Usernames == {"admin", "Admin"}
Passwords == {"admin123", "ADMIN123"}
SearchTexts == {"", "AN", "zz"}

\* What the database holds under the name room when the program starts: no
\* such relation, or one with a row for room 1.
LowerRooms ==
    {Absent} \cup {[exists |-> TRUE,
                    rows |-> {[room_id |-> 1, capacity |-> c]}] :
                       c \in 1..MaxCap}

\* The lower-case relations of the database when the program starts: none,
\* or member and healthmetric with the columns the view reads, without or
\* with a relation room.
LowerRelations ==
    {[member |-> FALSE, room |-> Absent]}
        \cup {[member |-> TRUE, room |-> r] : r \in LowerRooms}

\* datetime.strptime(text, "%Y-%m-%d").date(): the day, or ValueError.
ParseDate(s) ==
    CASE s = "1990-1-1" -> [ok |-> TRUE, v |-> "1990-01-01"]
      [] s = "1990-01-01" -> [ok |-> TRUE, v |-> "1990-01-01"]
      [] OTHER -> [ok |-> FALSE, v |-> None]

\* func.lower(Member.name).like("%" + text.lower() + "%")
NameLike(name, text) ==
    CASE text = "" -> TRUE
      [] text = "AN" -> name \in {"ann"}
      [] OTHER -> FALSE

\* Values the sequences sq of the tables T have handed out.
RECURSIVE HandedOut(_, _)
HandedOut(sq, T) ==
    IF T = {} THEN 0
    ELSE LET t == CHOOSE x \in T : TRUE
         IN  sq[t] - 1 + HandedOut(sq, T \ {t})

\* The store d with the sequences sq is within the bounds of the model: a
\* sequence has handed out at most MaxId values, and the sequences of the
\* tables the menus write to at most MaxRows in all.
WithinBounds(d, sq) ==
    /\ \A t \in TableNames : sq[t] <= MaxId + 1
    /\ HandedOut(sq, TableNames \ {"Admin"}) <= MaxRows

\* ------------------------------------------------------------ bookkeeping

\* How a step ended.  The program never writes a lower-case relation.
Ended(op, outcome) ==
    /\ last' = [op |-> op, outcome |-> outcome]
    /\ UNCHANGED lower

\* An exception no handler catches ends the process; the session goes with it.
Crash(op) ==
    /\ pc' = "crashed"
    /\ pending' = <<>>
    /\ txn' = "none"
    /\ Ended(op, "crash")
    /\ UNCHANGED <<tables, view, trigger, db, seq>>

\* An operation that returns to its menu after a query, without writing: the
\* query has opened a transaction of the session, and nothing closes it.
Return(op, outcome) ==
    /\ txn' = "open"
    /\ Ended(op, outcome)
    /\ UNCHANGED <<pc, tables, view, trigger, db, seq, pending>>

\* An operation that returns to its menu before it has used the session.
ReturnEarly(op, outcome) ==
    /\ Ended(op, outcome)
    /\ UNCHANGED <<pc, tables, view, trigger, db, seq, pending, txn>>

\* try: session.add(...); session.commit(); print(...)
\* except: session.rollback().  shows: the print after the commit reads a
\* column of the stored object, which the commit has expired; the session
\* loads it again and is inside a transaction from then on.
TryCommit(op, ws, shows) ==
    LET c == Commit(ws) IN
    /\ WithinBounds(c.db, c.seq)
    /\ db' = c.db
    /\ seq' = c.seq
    /\ pending' = IF c.err = "" THEN c.pending ELSE Rollback(c.pending)
    /\ txn' = IF c.err = "" /\ shows THEN "open" ELSE "none"
    /\ Ended(op, Outcome(c.err))
    /\ UNCHANGED <<pc, tables, view, trigger>>


\* ----------------------------------------------------------------- startup

\* main_menu, first step: create_tables() up to its call of
\* create_view_and_trigger.  Missing tables are created empty, with fresh
\* sequences.
CreateTables ==
    /\ pc \in {"off", "crashed"}
    /\ tables' = TRUE
    /\ db' = IF tables THEN db ELSE EmptyDb
    /\ seq' = IF tables THEN seq ELSE FreshSeq
    /\ pc' = "create_view_and_trigger"
    /\ pending' = <<>>
    /\ txn' = "none"
    /\ Ended("create_tables", "ok")
    /\ UNCHANGED <<view, trigger>>

\* create_view_and_trigger(engine): three statements on one connection, each
\* in a try whose except clause lets the startup go on.  The view reads FROM
\* Member and HealthMetric without quotes, the relations member and
\* healthmetric: CREATE OR REPLACE VIEW goes through when the database holds
\* them, and so do CREATE FUNCTION, whose body is not looked at, and
\* DROP/CREATE TRIGGER ON "Class" after it.  When it fails, the except clause
\* does not roll back, the transaction of the connection stays aborted and
\* the two statements after it fail as well.
CreateViewAndTrigger ==
    LET viewOk == lower.member IN
    /\ pc = "create_view_and_trigger"
    /\ view' = (view \/ viewOk)
    /\ trigger' = (trigger \/ viewOk)
    /\ pc' = "create_default_admin"
    /\ Ended("create_view_and_trigger",
             IF viewOk THEN "ok" ELSE "UnexpectedError")
    /\ UNCHANGED <<tables, db, seq, pending, txn>>

DefaultAdmin ==
    [username |-> "admin", password_hash |-> "admin123",
     name |-> "System Administrator", email |-> "admin@fitnessclub.com"]

\* create_default_admin(session) inside main_menu's try: an error is reported
\* and the menu is shown all the same.  No rollback follows a commit that
\* raised: the session has undone the transaction and dropped the new
\* object, holds no lock, and refuses to be used until it is rolled back.
CreateDefaultAdmin ==
    /\ pc = "create_default_admin"
    /\ pc' = "main"
    /\ IF Rows(db, "Admin", "username", "admin") # {}
       THEN /\ Ended("create_default_admin", "ok")
            /\ txn' = "open"
            /\ UNCHANGED <<db, seq, pending>>
       ELSE LET c == Commit(Append(pending, Insert("Admin", DefaultAdmin))) IN
            /\ db' = c.db
            /\ seq' = c.seq
            /\ pending' = IF c.err = "" THEN c.pending ELSE <<>>
            /\ txn' = IF c.err = "" THEN "none" ELSE "failed"
            /\ Ended("create_default_admin", Outcome(c.err))
    /\ UNCHANGED <<tables, view, trigger>>

\* drop_all_tables(): asks, then drops every table in one transaction on a
\* connection of its own.  The trigger and the sequences go with their
\* tables; the view stays, it reads the relations member and healthmetric.
\* DROP TABLE waits for every transaction that holds a lock on the table:
\* while the session of this process is inside a transaction the wait does
\* not end.
DropOutcome(confirm) ==
    IF Lower(confirm) # "yes" THEN "cancelled"
    ELSE IF tables /\ txn = "open" THEN "hang"
    ELSE "ok"

drop_all_tables(confirm) ==
    /\ IF DropOutcome(confirm) = "ok"
       THEN /\ tables' = FALSE
            /\ trigger' = FALSE
            /\ db' = EmptyDb
            /\ seq' = FreshSeq
       ELSE UNCHANGED <<tables, trigger, db, seq>>
    /\ Ended("drop_all_tables", DropOutcome(confirm))
    /\ UNCHANGED <<view, pending, txn>>

\* python main.py --drop-tables: no session is open.
DropTablesFlag(confirm) ==
    /\ pc \in {"off", "crashed"}
    /\ pc' = "off"
    /\ drop_all_tables(confirm)

\* --------------------------------------------------------------- main menu

\* Choice "1".
MemberFunctions ==
    /\ pc = "main"
    /\ pc' = "member"
    /\ Ended("main_menu", "ok")
    /\ UNCHANGED <<tables, view, trigger, db, seq, pending, txn>>

\* Choice "2".
TrainerFunctions ==
    /\ pc = "main"
    /\ pc' = "trainer"
    /\ Ended("main_menu", "ok")
    /\ UNCHANGED <<tables, view, trigger, db, seq, pending, txn>>

\* A login that does not compare the password.
authenticate_any_password(username, password) ==
    Rows(db, "Admin", "username", username)

\* authenticate_admin(session): the Admin row the login is granted to, or {}.
authenticate_admin(username, password) ==
    {a \in Rows(db, "Admin", "username", username) : a.password_hash = password}

\* Choice "3" without its test: the admin menu whatever the login answered.
AdminFunctionsUngated(username, password) ==
    /\ pc = "main"
    /\ IF QueryRaises THEN Crash("authenticate_admin")
       ELSE /\ pc' = "admin"
            /\ Ended("authenticate_admin",
                     IF authenticate_admin(username, password) # {}
                     THEN "ok" ELSE "denied")
            /\ txn' = "open"
            /\ UNCHANGED <<tables, view, trigger, db, seq, pending>>

\* Choice "3": authenticate_admin, then admin_menu or "Access denied".
AdminFunctions(username, password) ==
    /\ pc = "main"
    /\ IF QueryRaises THEN Crash("authenticate_admin")
       ELSE /\ pc' = IF authenticate_admin(username, password) # {}
                     THEN "admin" ELSE "main"
            /\ Ended("authenticate_admin",
                     IF authenticate_admin(username, password) # {}
                     THEN "ok" ELSE "denied")
            /\ txn' = "open"
            /\ UNCHANGED <<tables, view, trigger, db, seq, pending>>

\* Choice "0" of the main menu: the loop ends and the session is closed.
Exit ==
    /\ pc = "main"
    /\ pc' = "off"
    /\ pending' = <<>>
    /\ txn' = "none"
    /\ Ended("main_menu", "exit")
    /\ UNCHANGED <<tables, view, trigger, db, seq>>

\* Choice "0" of a sub-menu.
Back ==
    /\ pc \in {"member", "trainer", "admin"}
    /\ pc' = "main"
    /\ Ended("back", "ok")
    /\ UNCHANGED <<tables, view, trigger, db, seq, pending, txn>>

\* Any other choice, in any menu: "Invalid choice." and the menu again.
InvalidChoice ==
    /\ pc \in {"main", "member", "trainer", "admin"}
    /\ ReturnEarly("invalid_choice", "ok")

\* -------------------------------------------------------------- member menu

\* register_member(session)
register_member(name, email, dob_str, gender, phone) ==
    LET dob == IF OrNone(dob_str) # None /\ ParseDate(dob_str).ok
               THEN ParseDate(dob_str).v ELSE None
        member == [name |-> name, email |-> email, date_of_birth |-> dob,
                   gender |-> OrNone(gender), phone |-> OrNone(phone)]
    IN  TryCommit("register_member", Append(pending, Insert("Member", member)),
                  TRUE)

RegisterMember(name, email, dob_str, gender, phone) ==
    /\ pc = "member"
    /\ register_member(name, email, dob_str, gender, phone)

\* update_member_profile(session)
update_member_profile(id_text, name_text, phone_text) ==
    LET member_id == ParseInt(id_text)
        name == OrNone(Strip(name_text))
        phone == OrNone(Strip(phone_text))
        member == Rows(db, "Member", "member_id", member_id.v)
        changed == \E m \in member :
                       \/ name # None /\ name # m.name
                       \/ phone # None /\ phone # m.phone
    IN  IF ~member_id.ok \/ QueryRaises
        THEN Crash("update_member_profile")
        ELSE IF member = {} THEN Return("update_member_profile", "NotFound")
        ELSE TryCommit("update_member_profile",
                       IF changed
                       THEN Append(pending, Update(member_id.v, name, phone))
                       ELSE pending,
                       FALSE)

UpdateMemberProfile(id_text, name_text, phone_text) ==
    /\ pc = "member"
    /\ update_member_profile(id_text, name_text, phone_text)

\* add_health_metric(session)
add_health_metric(id_text, metric_type, value_text) ==
    LET member_id == ParseInt(id_text)
        metric_value == ParseFloat(value_text)
        metric == [member_id |-> member_id.v, metric_type |-> metric_type,
                   metric_value |-> metric_value.v]
    IN  IF ~member_id.ok \/ ~metric_value.ok \/ QueryRaises
        THEN Crash("add_health_metric")
        ELSE IF Rows(db, "Member", "member_id", member_id.v) = {}
        THEN Return("add_health_metric", "NotFound")
        ELSE TryCommit("add_health_metric",
                       Append(pending, Insert("HealthMetric", metric)), FALSE)

AddHealthMetric(id_text, metric_type, value_text) ==
    /\ pc = "member"
    /\ add_health_metric(id_text, metric_type, value_text)

\* book_pt_session(session)
book_pt_session(member_text, trainer_text, time_text) ==
    LET member_id == ParseInt(member_text)
        trainer_id == ParseInt(trainer_text)
        session_time == ParseTime(time_text)
        pt_session == [member_id |-> member_id.v, trainer_id |-> trainer_id.v,
                       session_time |-> session_time.v, status |-> "scheduled"]
    IN  IF ~member_id.ok \/ ~trainer_id.ok \/ ~session_time.ok
        THEN ReturnEarly("book_pt_session", "ValidationError")
        ELSE TryCommit("book_pt_session",
                       Append(pending, Insert("PTSession", pt_session)), FALSE)

BookPtSession(member_text, trainer_text, time_text) ==
    /\ pc = "member"
    /\ book_pt_session(member_text, trainer_text, time_text)

\* Enrollments of a class.
Enrolled(d, class_id) == Rows(d, "ClassEnrollment", "class_id", class_id)

\* view_available_classes(session): the listing, one line per class.
AvailableClasses ==
    {[class_id |-> c.class_id,
      enrollment_count |-> Cardinality(Enrolled(db, c.class_id)),
      status |-> IF c.capacity - Cardinality(Enrolled(db, c.class_id)) = 0
                 THEN "FULL" ELSE "spots"] : c \in db["Class"]}

ViewAvailableClasses ==
    /\ pc = "member"
    /\ IF QueryRaises THEN Crash("view_available_classes")
       ELSE Return("view_available_classes",
                   IF AvailableClasses = {} THEN "NotFound" ELSE "ok")

\* The enrollment query with its two identifiers the wrong way round.
swapped_enrollment(d, member_id, class_id) ==
    {e \in d["ClassEnrollment"] :
        e.member_id = class_id /\ e.class_id = member_id}

\* The query of signup_for_class for an enrollment of the member in the class.
existing_enrollment(d, member_id, class_id) ==
    {e \in d["ClassEnrollment"] :
        e.member_id = member_id /\ e.class_id = class_id}

\* The capacity test one off: full with one place left.
ClassIsFullOffByOne(enrollment_count, capacity) ==
    enrollment_count + 1 >= capacity

\* The capacity test of signup_for_class.
ClassIsFull(enrollment_count, capacity) == enrollment_count >= capacity

\* signup_for_class(session)
signup_for_class(member_text, class_text) ==
    LET member_id == ParseInt(member_text)
        class_id == ParseInt(class_text)
        class_obj == Rows(db, "Class", "class_id", class_id.v)
        enrollment_count == Cardinality(Enrolled(db, class_id.v))
        enrollment == [member_id |-> member_id.v, class_id |-> class_id.v]
    IN  IF ~member_id.ok
        THEN ReturnEarly("signup_for_class", "ValidationError")
        ELSE IF QueryRaises THEN Crash("signup_for_class")
        ELSE IF Rows(db, "Member", "member_id", member_id.v) = {}
        THEN Return("signup_for_class", "NotFound")
        ELSE IF ~class_id.ok THEN Return("signup_for_class", "ValidationError")
        ELSE IF class_obj = {} THEN Return("signup_for_class", "NotFound")
        ELSE IF existing_enrollment(db, member_id.v, class_id.v) # {}
        THEN Return("signup_for_class", "AlreadyEnrolled")
        ELSE IF \E c \in class_obj : ClassIsFull(enrollment_count, c.capacity)
        THEN Return("signup_for_class", "ClassFull")
        ELSE TryCommit("signup_for_class",
                       Append(pending, Insert("ClassEnrollment", enrollment)),
                       TRUE)

SignupForClass(member_text, class_text) ==
    /\ pc = "member"
    /\ signup_for_class(member_text, class_text)

\* ------------------------------------------------------------- trainer menu

\* view_trainer_schedule(session)
ViewTrainerSchedule(id_text) ==
    /\ pc = "trainer"
    /\ IF ~ParseInt(id_text).ok \/ QueryRaises
       THEN Crash("view_trainer_schedule")
       ELSE Return("view_trainer_schedule",
                   IF Rows(db, "Trainer", "trainer_id", ParseInt(id_text).v) = {}
                   THEN "NotFound" ELSE "ok")

\* member_lookup(session)
MemberLookup(name_like, id_text) ==
    /\ pc = "trainer"
    /\ IF QueryRaises THEN Crash("member_lookup")
       ELSE IF {m \in db["Member"] : NameLike(m.name, name_like)} = {}
       THEN Return("member_lookup", "NotFound")
       ELSE IF ~ParseInt(id_text).ok THEN Crash("member_lookup")
       ELSE Return("member_lookup",
                   IF Rows(db, "Member", "member_id", ParseInt(id_text).v) = {}
                   THEN "NotFound" ELSE "ok")

\* --------------------------------------------------------------- admin menu

\* create_trainer(session)
create_trainer(name, email, specialization) ==
    TryCommit("create_trainer",
              Append(pending,
                     Insert("Trainer",
                            [name |-> name, email |-> email,
                             specialization |-> OrNone(specialization)])),
              TRUE)

CreateTrainer(name, email, specialization) ==
    /\ pc = "admin"
    /\ create_trainer(name, email, specialization)

\* create_room(session)
create_room(name, cap_text) ==
    LET capacity == ParseInt(cap_text) IN
    IF ~capacity.ok THEN Crash("create_room")
    ELSE TryCommit("create_room",
                   Append(pending,
                          Insert("Room", [name |-> name, capacity |-> capacity.v])),
                   TRUE)

CreateRoom(name, cap_text) ==
    /\ pc = "admin"
    /\ create_room(name, cap_text)

\* create_class(session)
create_class(trainer_text, room_text, class_name, time_text, cap_text) ==
    LET trainer_id == ParseInt(trainer_text)
        room_id == ParseInt(room_text)
        capacity == ParseInt(cap_text)
        class_time == ParseTime(time_text)
        class_obj == [trainer_id |-> trainer_id.v, room_id |-> room_id.v,
                      class_name |-> class_name, class_time |-> class_time.v,
                      capacity |-> capacity.v]
    IN  IF ~trainer_id.ok \/ ~room_id.ok \/ ~capacity.ok
        THEN Crash("create_class")
        ELSE IF ~class_time.ok
        THEN ReturnEarly("create_class", "ValidationError")
        ELSE TryCommit("create_class",
                       Append(pending, Insert("Class", class_obj)), FALSE)

CreateClass(trainer_text, room_text, class_name, time_text, cap_text) ==
    /\ pc = "admin"
    /\ create_class(trainer_text, room_text, class_name, time_text, cap_text)

\* Choice "4" of the admin menu: after a reset the admin menu returns to the
\* main menu; after a cancelled one it is shown again; a reset that waits for
\* the session's own transaction leaves the process blocked in
\* drop_all_tables.
DropAllTables(confirm) ==
    /\ pc = "admin"
    /\ pc' = CASE DropOutcome(confirm) = "ok" -> "main"
               [] DropOutcome(confirm) = "hang" -> "hung"
               [] OTHER -> "admin"
    /\ drop_all_tables(confirm)

\* --------------------------------------------------------- the specification

Init ==
    /\ pc = "off"
    /\ tables = FALSE
    /\ view = FALSE
    /\ trigger = FALSE
    /\ db = EmptyDb
    /\ seq = FreshSeq
    /\ pending = <<>>
    /\ txn = "none"
    /\ lower \in LowerRelations
    /\ last = [op |-> "none", outcome |-> "ok"]

\* main_menu from its start to the first menu.
Startup ==
    \/ CreateTables
    \/ CreateViewAndTrigger
    \/ CreateDefaultAdmin

\* The menus.
Menus ==
    \/ MemberFunctions
    \/ TrainerFunctions
    \/ \E u \in Usernames, p \in Passwords : AdminFunctions(u, p)
    \/ Exit
    \/ Back
    \/ InvalidChoice

\* The operations on members.
MemberOps ==
    \/ \E f \in RegistrationForms :
           RegisterMember(f[1], f[2], f[3], f[4], f[5])
    \/ \E id \in IdTexts, name \in NewNameTexts, phone \in NewPhoneTexts :
           UpdateMemberProfile(id, name, phone)
    \/ \E id \in IdTexts, value \in MetricTexts :
           AddHealthMetric(id, "Weight (kg)", value)
    \/ \E text \in SearchTexts, id \in IdTexts : MemberLookup(text, id)

\* The operations on personal-training sessions.
SessionOps ==
    \/ \E m \in IdTexts, t \in IdTexts, time \in TimeTexts :
           BookPtSession(m, t, time)
    \/ \E id \in IdTexts : ViewTrainerSchedule(id)

\* The operations on rooms, classes and enrollments.
ClassOps ==
    \/ \E name \in RoomNames, cap \in CapTexts : CreateRoom(name, cap)
    \/ \E t \in IdTexts, r \in IdTexts, time \in ClassTimeTexts, cap \in CapTexts :
           CreateClass(t, r, "yoga", time, cap)
    \/ ViewAvailableClasses
    \/ \E m \in IdTexts, c \in IdTexts : SignupForClass(m, c)

\* The table reset, from the admin menu and from the command line.
Resets ==
    \/ \E confirm \in ConfirmTexts : DropTablesFlag(confirm)
    \/ \E confirm \in ConfirmTexts : DropAllTables(confirm)

Trainers == \E email \in TrainerEmails : CreateTrainer("tom", email, "")

\* The whole program: every operation, each with the inputs that bring out
\* its outcomes.
Next ==
    \/ Startup
    \/ Menus
    \/ Resets
    \/ Trainers
    \/ \E f \in {g \in RegistrationForms : g[1] = "cy"} :
           RegisterMember(f[1], f[2], f[3], f[4], f[5])
    \/ \E id \in IdTexts : UpdateMemberProfile(id, " bob ", "")
    \/ \E id \in IdTexts, value \in MetricTexts :
           AddHealthMetric(id, "Weight (kg)", value)
    \/ \E id \in IdTexts : MemberLookup("AN", id)
    \/ \E m \in IdTexts, t \in IdTexts, time \in TimeTexts \cap ClassTimeTexts :
           BookPtSession(m, t, time)
    \/ \E id \in IdTexts : ViewTrainerSchedule(id)
    \/ \E name \in RoomNames, cap \in CapTexts : CreateRoom(name, cap)
    \/ \E t \in IdTexts, r \in IdTexts, time \in TimeTexts \cap ClassTimeTexts,
          cap \in CapTexts :
           CreateClass(t, r, "yoga", time, cap)
    \/ ViewAvailableClasses
    \/ \E m \in IdTexts, c \in IdTexts : SignupForClass(m, c)

Spec == Init /\ [][Next]_vars

\* Rooms, classes and enrollments: the admin who sets them up and the members
\* who sign up.
NextClasses ==
    \/ Startup
    \/ Menus
    \/ Resets
    \/ Trainers
    \/ \E f \in {g \in RegistrationForms : g[1] = "ann"} :
           RegisterMember(f[1], f[2], f[3], f[4], f[5])
    \/ ClassOps

SpecClasses == Init /\ [][NextClasses]_vars

\* Members: registration, profile, metrics, lookup.
NextMembers == Startup \/ Menus \/ Resets \/ MemberOps

SpecMembers == Init /\ [][NextMembers]_vars

\* Personal-training sessions of the trainers, with a second trainer and a
\* second instant.
NextSessions ==
    \/ Startup
    \/ Menus
    \/ Resets
    \/ \E email \in TrainerEmails \cup {"u@x"} : CreateTrainer("tom", email, "")
    \/ \E f \in RegistrationForms :
           RegisterMember(f[1], f[2], f[3], f[4], f[5])
    \/ \E m \in IdTexts, t \in IdTexts, time \in ClassTimeTexts \cup TimeTexts :
           BookPtSession(m, t, time)
    \/ \E id \in IdTexts : ViewTrainerSchedule(id)

SpecSessions == Init /\ [][NextSessions]_vars

\* ------------------------------------------------------ two console processes

\* Two runs of the program at the same time on one database.  Each has its
\* own session (get_session) and so its own transaction; a statement reads
\* what is committed when it runs.  In this specification pc and pending
\* hold one value per process, last names the process too, and a step is one
\* stretch of a handler between two points where the other process can run.
\* session.commit() is two statements, the INSERT of the flush and the
\* COMMIT, and the INSERT takes its key from the sequence before it enters
\* the row in the unique index, where it can wait: pending holds the rows a
\* process has inserted and not yet committed, with the keys they took, and
\* db the committed rows.
Clients == {"first", "second"}

\* The local variables of a handler, and where the process is in it.
AtMenu ==
    [at |-> "menu", member_id |-> 0, class_id |-> 0, trainer_id |-> 0,
     session_time |-> 0, enrollment_count |-> 0, key |-> 0]

\* The rows an admin and the members have stored before the two processes
\* meet: MaxId members, MaxId trainers, one room and one class of capacity cap.
RaceStore(cap) ==
    Flush(<<Insert("Admin", DefaultAdmin)>>
          \o [n \in 1..MaxId |->
                 Insert("Member",
                        [name |-> "ann", email |-> ToString(n) \o "@x",
                         date_of_birth |-> None, gender |-> None,
                         phone |-> None])]
          \o [n \in 1..MaxId |->
                 Insert("Trainer",
                        [name |-> "tom", email |-> ToString(n) \o "@t",
                         specialization |-> None])]
          \o <<Insert("Room", [name |-> "Studio A", capacity |-> MaxCap]),
               Insert("Class",
                      [trainer_id |-> 1, room_id |-> 1, class_name |-> "yoga",
                       class_time |-> 1, capacity |-> cap])>>,
          EmptyDb, FreshSeq, TRUE, FALSE, Absent)

InitRace ==
    /\ pc = [c \in Clients |-> AtMenu]
    /\ pending = [c \in Clients |-> <<>>]
    /\ last = [op |-> "none", outcome |-> "ok", client |-> "none"]
    /\ tables = TRUE
    /\ view = FALSE
    /\ trigger = FALSE
    /\ txn = "none"
    /\ lower = [member |-> FALSE, room |-> Absent]
    /\ \E cap \in 1..MaxCap :
           /\ db = RaceStore(cap).db
           /\ seq = RaceStore(cap).seq

\* The sequences of the tables the two processes write have handed out at
\* most MaxId values.
RaceBounds(sq) ==
    \A t \in {"PTSession", "ClassEnrollment"} : sq[t] <= MaxId + 1

\* The handler of process c returns to the menu without writing.
ClientReturn(c, op, outcome) ==
    /\ pc' = [pc EXCEPT ![c] = AtMenu]
    /\ last' = [op |-> op, outcome |-> outcome, client |-> c]
    /\ UNCHANGED <<tables, view, trigger, db, seq, pending, txn, lower>>

\* The handler of process c goes on to its next statement with the locals l.
ClientGoes(c, l) ==
    /\ pc' = [pc EXCEPT ![c] = l]
    /\ UNCHANGED <<tables, view, trigger, db, seq, pending, txn, lower, last>>

\* The rows of table t among the inserts ws.
Inserted(ws, t) ==
    {ws[i].row : i \in {j \in DOMAIN ws : ws[j].table = t}}

\* The rows the transactions of the processes other than c have inserted
\* and not yet committed.
Uncommitted(c) ==
    [t \in TableNames |->
        UNION {Inserted(pending[c2], t) : c2 \in Clients \ {c}}]

\* The INSERT of w by process c waits for the end of another transaction:
\* that transaction has inserted, and not yet committed, a row with the same
\* values under a unique constraint of the table.
Waits(c, w) ==
    CASE w.table = "ClassEnrollment" -> ~uq_member_class(Uncommitted(c), w.row)
      [] w.table = "PTSession" -> ~uq_trainer_time(Uncommitted(c), w.row)
      [] OTHER -> FALSE

\* try: session.add(...); session.commit(), the start of the INSERT of the
\* flush in the session of process c: the row for table t takes its key from
\* the sequence, which does not give it back.  The process goes on to the
\* checks of the row at position at.
ClientNextval(c, t, at) ==
    /\ RaceBounds([seq EXCEPT ![t] = @ + 1])
    /\ seq' = [seq EXCEPT ![t] = @ + 1]
    /\ pc' = [pc EXCEPT ![c].at = at, ![c].key = seq[t]]
    /\ UNCHANGED <<tables, view, trigger, db, pending, txn, lower, last>>

\* The rest of the INSERT: the row, with the key it took, is checked against
\* the committed rows, after the wait for the transactions whose rows
\* collide with it.  Accepted, it stays in the transaction and the process
\* goes on to the COMMIT at position at; refused,
\* except: session.rollback() ends the handler.
ClientInsert(c, op, w, at) ==
    LET e == InsertError(db, trigger, lower.room, w.table, w.row)
    IN  /\ ~Waits(c, w)
        /\ IF e = ""
           THEN /\ pending' =
                       [pending EXCEPT
                           ![c] = Append(pending[c],
                                         Insert(w.table,
                                                WithKey(w.table, w.row,
                                                        pc[c].key)))]
                /\ pc' = [pc EXCEPT ![c].at = at]
                /\ UNCHANGED last
           ELSE /\ pending' = [pending EXCEPT ![c] = Rollback(<<w>>)]
                /\ pc' = [pc EXCEPT ![c] = AtMenu]
                /\ last' = [op |-> op, outcome |-> Outcome(e), client |-> c]
        /\ UNCHANGED <<tables, view, trigger, db, seq, txn, lower>>

\* The COMMIT of session.commit() in the session of process c: the rows of
\* the transaction become committed rows, and the handler prints and returns.
ClientCommit(c, op) ==
    /\ db' = [t \in TableNames |-> db[t] \cup Inserted(pending[c], t)]
    /\ pending' = [pending EXCEPT ![c] = <<>>]
    /\ pc' = [pc EXCEPT ![c] = AtMenu]
    /\ last' = [op |-> op, outcome |-> "ok", client |-> c]
    /\ UNCHANGED <<tables, view, trigger, seq, txn, lower>>

\* signup_for_class, the member: int(input) and the query for the member.
SignupMember(c, member_text) ==
    /\ pc[c].at = "menu"
    /\ IF ~ParseInt(member_text).ok
       THEN ClientReturn(c, "signup_for_class", "ValidationError")
       ELSE IF Rows(db, "Member", "member_id", ParseInt(member_text).v) = {}
       THEN ClientReturn(c, "signup_for_class", "NotFound")
       ELSE ClientGoes(c, [AtMenu EXCEPT !.at = "signup_class",
                                         !.member_id = ParseInt(member_text).v])

\* signup_for_class, the class: int(input) and the query for the class.
SignupClass(c, class_text) ==
    /\ pc[c].at = "signup_class"
    /\ IF ~ParseInt(class_text).ok
       THEN ClientReturn(c, "signup_for_class", "ValidationError")
       ELSE IF Rows(db, "Class", "class_id", ParseInt(class_text).v) = {}
       THEN ClientReturn(c, "signup_for_class", "NotFound")
       ELSE ClientGoes(c, [pc[c] EXCEPT !.at = "signup_existing",
                                        !.class_id = ParseInt(class_text).v])

\* signup_for_class, the query for an enrollment of the member in the class.
SignupExisting(c) ==
    /\ pc[c].at = "signup_existing"
    /\ IF existing_enrollment(db, pc[c].member_id, pc[c].class_id) # {}
       THEN ClientReturn(c, "signup_for_class", "AlreadyEnrolled")
       ELSE ClientGoes(c, [pc[c] EXCEPT !.at = "signup_count"])

\* signup_for_class, the count of the enrollments and the capacity test.
SignupCount(c) ==
    /\ pc[c].at = "signup_count"
    /\ LET enrollment_count == Cardinality(Enrolled(db, pc[c].class_id))
           class_obj == Rows(db, "Class", "class_id", pc[c].class_id)
       IN  IF \E x \in class_obj : ClassIsFull(enrollment_count, x.capacity)
           THEN ClientReturn(c, "signup_for_class", "ClassFull")
           ELSE ClientGoes(c, [pc[c] EXCEPT
                                  !.at = "signup_nextval",
                                  !.enrollment_count = enrollment_count])

\* signup_for_class, session.add(enrollment) and the start of the INSERT of
\* the commit.
SignupNextval(c) ==
    /\ pc[c].at = "signup_nextval"
    /\ ClientNextval(c, "ClassEnrollment", "signup_insert")

\* signup_for_class, the rest of the INSERT.
SignupInsert(c) ==
    /\ pc[c].at = "signup_insert"
    /\ ClientInsert(c, "signup_for_class",
                    Insert("ClassEnrollment",
                           [member_id |-> pc[c].member_id,
                            class_id |-> pc[c].class_id]),
                    "signup_commit")

\* signup_for_class, the COMMIT and the prints.
SignupCommit(c) ==
    /\ pc[c].at = "signup_commit"
    /\ ClientCommit(c, "signup_for_class")

\* book_pt_session, the three inputs and their conversions.
BookInputs(c, member_text, trainer_text, time_text) ==
    /\ pc[c].at = "menu"
    /\ IF \/ ~ParseInt(member_text).ok
          \/ ~ParseInt(trainer_text).ok
          \/ ~ParseTime(time_text).ok
       THEN ClientReturn(c, "book_pt_session", "ValidationError")
       ELSE ClientGoes(c, [AtMenu EXCEPT
                              !.at = "book_nextval",
                              !.member_id = ParseInt(member_text).v,
                              !.trainer_id = ParseInt(trainer_text).v,
                              !.session_time = ParseTime(time_text).v])

\* book_pt_session, session.add(pt_session) and the start of the INSERT of
\* the commit.
BookNextval(c) ==
    /\ pc[c].at = "book_nextval"
    /\ ClientNextval(c, "PTSession", "book_insert")

\* book_pt_session, the rest of the INSERT.
BookInsert(c) ==
    /\ pc[c].at = "book_insert"
    /\ ClientInsert(c, "book_pt_session",
                    Insert("PTSession",
                           [member_id |-> pc[c].member_id,
                            trainer_id |-> pc[c].trainer_id,
                            session_time |-> pc[c].session_time,
                            status |-> "scheduled"]),
                    "book_commit")

\* book_pt_session, the COMMIT and the print.
BookCommit(c) ==
    /\ pc[c].at = "book_commit"
    /\ ClientCommit(c, "book_pt_session")

NextRace ==
    \E c \in Clients :
        \/ \E m \in IdTexts : SignupMember(c, m)
        \/ \E k \in IdTexts : SignupClass(c, k)
        \/ SignupExisting(c)
        \/ SignupCount(c)
        \/ SignupNextval(c)
        \/ SignupInsert(c)
        \/ SignupCommit(c)
        \/ \E m \in IdTexts, t \in IdTexts, time \in TimeTexts :
               BookInputs(c, m, t, time)
        \/ BookNextval(c)
        \/ BookInsert(c)
        \/ BookCommit(c)

SpecRace == InitRace /\ [][NextRace]_vars


\* ------------------------------------------------------------------- claims

\* The room of a class.
RoomOf(d, c) == Rows(d, "Room", "room_id", c.room_id)

\* C1: in every state reached by a sequence of operations, every stored class
\* has no more enrollments than its capacity and no more capacity than the
\* room it references.  Violated: when the startup did not install the
\* trigger, or the relation room the trigger reads does not hold the room
\* with its capacity, create_class stores a class larger than its room.
C1_EnrollmentWithinClassWithinRoom ==
    \A c \in db["Class"] :
        /\ Cardinality(Enrolled(db, c.class_id)) <= c.capacity
        /\ \A room \in RoomOf(db, c) : c.capacity <= room.capacity

\* The member and the class of the texts exist and the member is not
\* enrolled in the class.
NotYetEnrolled(member_text, class_text) ==
    /\ ParseInt(member_text).ok
    /\ ParseInt(class_text).ok
    /\ Rows(db, "Member", "member_id", ParseInt(member_text).v) # {}
    /\ Rows(db, "Class", "class_id", ParseInt(class_text).v) # {}
    /\ ~\E e \in db["ClassEnrollment"] :
           /\ e.member_id = ParseInt(member_text).v
           /\ e.class_id = ParseInt(class_text).v

\* The step adds exactly one enrollment, of the member in the class.
OneEnrollmentMore(member_id, class_id) ==
    /\ \E e \in db'["ClassEnrollment"] :
           /\ e.member_id = member_id
           /\ e.class_id = class_id
           /\ e \notin db["ClassEnrollment"]
           /\ db' = [db EXCEPT !["ClassEnrollment"] = @ \cup {e}]

\* C2: signup_for_class for an existing member and an existing class the
\* member is not enrolled in is rejected as ClassFull, creating no
\* enrollment, exactly when the class has at least as many enrollments as
\* its capacity; otherwise it creates exactly one enrollment.
C2_ClassFullExactlyAtCapacity ==
    [][\A m \in IdTexts, c \in IdTexts :
          (NotYetEnrolled(m, c) /\ SignupForClass(m, c)) =>
              LET class_id == ParseInt(c).v
                  cls == CHOOSE x \in db["Class"] : x.class_id = class_id
              IN  IF Cardinality(Enrolled(db, class_id)) >= cls.capacity
                  THEN /\ last'.outcome = "ClassFull"
                       /\ db' = db
                       /\ pending' = <<>>
                  ELSE /\ last'.outcome = "ok"
                       /\ OneEnrollmentMore(ParseInt(m).v, class_id)]_vars

\* A class of capacity N holds N enrollments and the attempt after them was
\* rejected as ClassFull.
C2_Witness ==
    /\ last = [op |-> "signup_for_class", outcome |-> "ClassFull"]
    /\ \E c \in db["Class"] :
           /\ c.capacity >= 1
           /\ Cardinality(Enrolled(db, c.class_id)) = c.capacity

\* The member is enrolled in the class.
IsEnrolled(member_text, class_text) ==
    /\ ParseInt(member_text).ok
    /\ ParseInt(class_text).ok
    /\ \E e \in db["ClassEnrollment"] :
           /\ e.member_id = ParseInt(member_text).v
           /\ e.class_id = ParseInt(class_text).v

\* No two rows of table t agree on the columns of cols.
Distinct(t, cols) ==
    \A x \in db[t], y \in db[t] :
        (\A c \in cols : x[c] = y[c]) => x = y

\* C3: signup_for_class for a member and a class that already have an
\* enrollment is rejected as AlreadyEnrolled and leaves the enrollments as
\* they were; no two enrollments ever share member_id and class_id.
C3_AlreadyEnrolledRejected ==
    /\ [](Distinct("ClassEnrollment", {"member_id", "class_id"}))
    /\ [][\A m \in IdTexts, c \in IdTexts :
             (SignupForClass(m, c) /\ IsEnrolled(m, c)) =>
                 /\ last'.outcome = "AlreadyEnrolled"
                 /\ db' = db
                 /\ pending' = <<>>]_vars

\* A member who is enrolled was just turned away as AlreadyEnrolled.
C3_Witness ==
    /\ last = [op |-> "signup_for_class", outcome |-> "AlreadyEnrolled"]
    /\ db["ClassEnrollment"] # {}

\* C4: register_member with the email of a stored member fails with an
\* integrity violation, adds no member and leaves every stored row as it
\* was; the emails of the members are pairwise distinct in every state.
C4_DuplicateEmailRejected ==
    /\ [](Distinct("Member", {"email"}))
    /\ [][\A f \in RegistrationForms :
             (/\ RegisterMember(f[1], f[2], f[3], f[4], f[5])
              /\ \E x \in db["Member"] : x.email = f[2]) =>
                 /\ last'.outcome = "IntegrityViolation"
                 /\ db' = db
                 /\ pending' = <<>>]_vars

\* A registration was just refused while members are stored.
C4_Witness ==
    /\ last = [op |-> "register_member", outcome |-> "IntegrityViolation"]
    /\ db["Member"] # {}

\* C5: book_pt_session for a trainer who has a session at the same instant
\* fails with an integrity violation and creates no session, the earlier
\* session stays stored as "scheduled"; no two sessions ever share trainer_id
\* and session_time.
C5_TrainerNotDoubleBooked ==
    /\ [](Distinct("PTSession", {"trainer_id", "session_time"}))
    /\ [][\A m \in IdTexts, t \in IdTexts, time \in ClassTimeTexts \cup TimeTexts :
             (/\ ParseInt(m).ok /\ ParseInt(t).ok /\ ParseTime(time).ok
              /\ \E x \in db["PTSession"] :
                     /\ x.trainer_id = ParseInt(t).v
                     /\ x.session_time = ParseTime(time).v
              /\ BookPtSession(m, t, time)) =>
                 /\ last'.outcome = "IntegrityViolation"
                 /\ db' = db
                 /\ \A x \in db'["PTSession"] : x.status = "scheduled"]_vars

\* Every member and trainer identifier that can be typed resolves, a session
\* is stored and a booking was just refused: the trainer was double-booked.
C5_Witness ==
    /\ last = [op |-> "book_pt_session", outcome |-> "IntegrityViolation"]
    /\ Cardinality(db["Member"]) = MaxId
    /\ Cardinality(db["Trainer"]) = MaxId
    /\ db["PTSession"] # {}

\* The capacity typed is larger than the capacity of the room typed.
ExceedsRoom(room_text, cap_text) ==
    /\ ParseInt(room_text).ok
    /\ ParseInt(cap_text).ok
    /\ \E room \in Rows(db, "Room", "room_id", ParseInt(room_text).v) :
           ParseInt(cap_text).v > room.capacity

\* C6: every create_class call whose capacity is greater than the capacity
\* of the room it references is rejected and creates no class row, after any
\* startup and any operations before it.  Violated: without the trigger the
\* class is stored, and with it when the relation room has no row for the
\* room or a row with a larger capacity.
C6_OversizedClassRejected ==
    [][\A t \in IdTexts, r \in IdTexts, time \in ClassTimeTexts, cap \in CapTexts :
          (CreateClass(t, r, "yoga", time, cap) /\ ExceedsRoom(r, cap)) =>
              /\ last'.outcome # "ok"
              /\ db'["Class"] = db["Class"]]_vars

\* C7: create_class itself checks, before the write, that the capacity does
\* not exceed the capacity of the room and fails with CapacityExceedsRoom
\* when it does, whether or not the trigger is installed.  Violated:
\* create_class has no such check.
C7_CreateClassChecksCapacity ==
    [][\A t \in IdTexts, r \in IdTexts, time \in ClassTimeTexts, cap \in CapTexts :
          (/\ CreateClass(t, r, "yoga", time, cap)
           /\ ParseInt(t).ok
           /\ ParseTime(time).ok
           /\ ExceedsRoom(r, cap)) =>
              last'.outcome = "CapacityExceedsRoom"]_vars

\* Text the operator leaves blank.
Blank(text) == text \in {"", " "}

\* C8: update_member_profile on an existing member with blank name and
\* phone leaves that member's row and every other row as they were and
\* reports success; with a name or a phone that is not blank only the
\* supplied columns of that one member change.
C8_BlankKeepsProfile ==
    [][\A id \in IdTexts, name \in NewNameTexts, phone \in NewPhoneTexts :
          (/\ UpdateMemberProfile(id, name, phone)
           /\ ParseInt(id).ok
           /\ Rows(db, "Member", "member_id", ParseInt(id).v) # {}) =>
              /\ last'.outcome = "ok"
              /\ \A t \in TableNames \ {"Member"} : db'[t] = db[t]
              /\ Cardinality(db'["Member"]) = Cardinality(db["Member"])
              /\ \A x \in db["Member"] :
                     IF x.member_id # ParseInt(id).v
                     THEN x \in db'["Member"]
                     ELSE \E y \in db'["Member"] :
                              /\ y.member_id = x.member_id
                              /\ y.email = x.email
                              /\ y.date_of_birth = x.date_of_birth
                              /\ y.gender = x.gender
                              /\ Blank(name) => y.name = x.name
                              /\ Blank(phone) => y.phone = x.phone
              /\ (Blank(name) /\ Blank(phone)) => db' = db]_vars

\* An update just succeeded and no member carries a name or a phone that an
\* update supplies: the update was blank in both.
C8_Witness ==
    /\ last = [op |-> "update_member_profile", outcome |-> "ok"]
    /\ db["Member"] # {}
    /\ \A x \in db["Member"] : x.name # "bob" /\ x.phone # "777"

\* C9: whatever the operator types, an operation catches its own failure and
\* returns to its menu; the process ends only through choice "0".  Violated:
\* int() of text that is no number is not caught by update_member_profile,
\* and the reset of the admin menu does not return while the session is
\* inside a transaction.
C9_NoOperationEndsTheProcess == pc \notin {"crashed", "hung"}

\* How an operation ends when it does not succeed.
ErrorOutcomes ==
    {"ValidationError", "NotFound", "IntegrityViolation", "UnexpectedError",
     "ClassFull", "AlreadyEnrolled", "crash"}

\* C10: when an operation ends in an error, every table holds what it held
\* before the operation, and the session carries no uncommitted write into
\* the next operation.
C10_ErrorsLeaveStore ==
    [][last'.outcome \in ErrorOutcomes => db' = db /\ pending' = <<>>]_vars

\* A booking was just refused by the store while rows are stored.
C10_Witness ==
    /\ last = [op |-> "book_pt_session", outcome |-> "IntegrityViolation"]
    /\ db["Member"] # {}
    /\ pending = <<>>

\* An Admin row with the username "admin" is stored.
DefaultAdminExists == Rows(db, "Admin", "username", "admin") # {}

\* C11: startup ensures the nine tables, then the view and the capacity
\* trigger, then the default admin; when the top-level menu is first shown
\* the tables exist, the trigger is installed on "Class" and an Admin named
\* "admin" exists.  Violated: create_view_and_trigger lets the startup go on
\* when its statements fail, as they do in a database without the relations
\* member and healthmetric, and the menu is shown without the trigger.
C11_StartupEnsuresAll ==
    /\ pc = "create_view_and_trigger" => last.op = "create_tables" /\ tables
    /\ pc = "create_default_admin" =>
           last.op = "create_view_and_trigger" /\ tables
    /\ (pc = "main" /\ last.op = "create_default_admin") =>
           tables /\ trigger /\ DefaultAdminExists

\* An Admin row with exactly this username and exactly this credential.
Credentialed(username, password) ==
    \E a \in db["Admin"] :
        a.username = username /\ a.password_hash = password

\* C12: authenticate_admin grants the login exactly when an Admin row with
\* that username is stored and its credential equals the password typed; an
\* unknown username or a password that differs in any way is not granted;
\* either way no stored state changes.
C12_AuthenticateExactMatch ==
    [][\A u \in Usernames, p \in Passwords :
          AdminFunctions(u, p) =>
              /\ (authenticate_admin(u, p) # {}) <=> Credentialed(u, p)
              /\ (pc' = "admin") <=> Credentialed(u, p)
              /\ (last'.outcome = "ok") <=> Credentialed(u, p)
              /\ UNCHANGED <<tables, view, trigger, db, seq>>]_vars

\* The login was just refused although the default admin is stored: the
\* username or the password typed differs from the stored one.
C12_Witness ==
    /\ last = [op |-> "authenticate_admin", outcome |-> "denied"]
    /\ DefaultAdminExists
    /\ pc = "main"

\* The member or the trainer typed is not a stored row.
Unresolved(member_text, trainer_text) ==
    \/ Rows(db, "Member", "member_id", ParseInt(member_text).v) = {}
    \/ Rows(db, "Trainer", "trainer_id", ParseInt(trainer_text).v) = {}

\* The sessions stored reference a stored member and a stored trainer and
\* are "scheduled".
SessionsResolve ==
    \A x \in db["PTSession"] :
        /\ Rows(db, "Member", "member_id", x.member_id) # {}
        /\ Rows(db, "Trainer", "trainer_id", x.trainer_id) # {}
        /\ x.status = "scheduled"

\* C15, as claimed: book_pt_session does not look its identifiers up, yet a
\* booking whose member or trainer is not a stored row fails with an
\* integrity violation and creates no session; every stored session
\* references a stored member and a stored trainer and is "scheduled".
\* Violated: after the reset of the admin menu the tables are gone, no
\* identifier is a stored row, and the INSERT fails for the missing table,
\* which the handler reports as an unexpected error.
C15_UnresolvedBookingIsIntegrityError ==
    /\ []SessionsResolve
    /\ [][\A m \in IdTexts, t \in IdTexts, time \in ClassTimeTexts \cup TimeTexts :
             (/\ ParseInt(m).ok /\ ParseInt(t).ok /\ ParseTime(time).ok
              /\ Unresolved(m, t)
              /\ BookPtSession(m, t, time)) =>
                 /\ last'.outcome = "IntegrityViolation"
                 /\ db' = db
                 /\ pending' = <<>>]_vars

\* C15, amended: book_pt_session does not look its identifiers up (it never
\* answers NotFound), yet a booking whose member or trainer is not a stored
\* row creates no session: while the tables exist it fails with an integrity
\* violation, and after the reset, when the tables are gone, with an
\* unexpected error; every stored session references a stored member and a
\* stored trainer and is "scheduled".
C15_SessionsReferenceStoredRows ==
    /\ []SessionsResolve
    /\ [][\A m \in IdTexts, t \in IdTexts, time \in ClassTimeTexts \cup TimeTexts :
             (/\ ParseInt(m).ok /\ ParseInt(t).ok /\ ParseTime(time).ok
              /\ Unresolved(m, t)
              /\ BookPtSession(m, t, time)) =>
                 /\ last'.outcome =
                        IF tables THEN "IntegrityViolation"
                                  ELSE "UnexpectedError"
                 /\ db' = db
                 /\ pending' = <<>>]_vars

\* A booking was just refused by the store although no session is stored
\* that it could collide with: a member or a trainer is missing.
C15_Witness ==
    /\ last = [op |-> "book_pt_session", outcome |-> "IntegrityViolation"]
    /\ tables
    /\ db["PTSession"] = {}
    /\ db["Member"] = {} \/ db["Trainer"] = {}

\* The operations of the admin menu that write rows.
AdminOps == {"create_trainer", "create_room", "create_class"}

\* C16: the admin operations and the reset of the admin menu run only in the
\* admin menu, the admin menu is entered only by a step of authenticate_admin
\* that matched a stored credential, a login that is refused shows the
\* top-level menu again and changes no stored state, and leaving the admin
\* menu leads to the top-level menu, from where it takes a new login, unless
\* the process has ended or is blocked in the reset.
C16_AdminGated ==
    [][/\ (pc' = "admin" /\ pc # "admin") =>
              /\ pc = "main"
              /\ \E u \in Usernames, p \in Passwords :
                     AdminFunctions(u, p) /\ Credentialed(u, p)
       /\ last'.op \in AdminOps => pc = "admin"
       /\ (last'.op = "drop_all_tables" /\ pc \notin {"off", "crashed"}) =>
              pc = "admin"
       /\ \A u \in Usernames, p \in Passwords :
              (AdminFunctions(u, p) /\ ~Credentialed(u, p)) =>
                  /\ pc' # "admin"
                  /\ tables => (pc' = "main" /\ last'.outcome = "denied")
                  /\ UNCHANGED <<tables, view, trigger, db, seq>>
       /\ (pc = "admin" /\ pc' # "admin") =>
              pc' \in {"main", "crashed", "hung"}]_vars

\* The admin menu was entered again: a trainer of an earlier visit is stored
\* and the login that opened this visit has just succeeded.
C16_Witness ==
    /\ pc = "admin"
    /\ last = [op |-> "authenticate_admin", outcome |-> "ok"]
    /\ db["Trainer"] # {}

\* Process c is about to insert an enrollment that is not yet stored.
InsertsNewEnrollment(c) ==
    /\ SignupInsert(c)
    /\ existing_enrollment(db, pc[c].member_id, pc[c].class_id) = {}

\* C13: the capacity test of signup_for_class is check-then-act.  A process
\* reaches its insert only with a count below the capacity, the insert of an
\* enrollment not yet stored is then accepted whatever the class holds by
\* now, and its commit stores the enrollment; with two processes that counted
\* before either inserted, a class with one free place ends with more
\* enrollments than its capacity.
C13_SignupCheckThenAct ==
    /\ [](\A c \in Clients :
             pc[c].at \in {"signup_nextval", "signup_insert"} =>
                 \A x \in Rows(db, "Class", "class_id", pc[c].class_id) :
                     pc[c].enrollment_count < x.capacity)
    /\ [][\A c \in Clients :
             InsertsNewEnrollment(c) =>
                 /\ pc'[c].at = "signup_commit"
                 /\ db' = db]_vars
    /\ [][\A c \in Clients :
             SignupCommit(c) =>
                 /\ last'.outcome = "ok"
                 /\ OneEnrollmentMore(pc[c].member_id, pc[c].class_id)]_vars

\* A process has just enrolled a member and the class holds more
\* enrollments than its capacity.
C13_Witness ==
    /\ last.op = "signup_for_class"
    /\ last.outcome = "ok"
    /\ \E x \in db["Class"] :
           Cardinality(Enrolled(db, x.class_id)) > x.capacity

\* Process c is about to insert a session for stored rows while a session of
\* the same trainer at the same instant is stored.
Collides(c) ==
    /\ BookInsert(c)
    /\ Rows(db, "Member", "member_id", pc[c].member_id) # {}
    /\ Rows(db, "Trainer", "trainer_id", pc[c].trainer_id) # {}
    /\ \E x \in db["PTSession"] :
           /\ x.trainer_id = pc[c].trainer_id
           /\ x.session_time = pc[c].session_time

\* The two bookings are interleaved: process c took the key of its session
\* before the stored session of the same trainer at the same instant took
\* its own, so c was in its INSERT before the other booking began its own,
\* and the other booking has committed since.
CollidesInterleaved(c) ==
    /\ Collides(c)
    /\ \E x \in db["PTSession"] :
           /\ x.trainer_id = pc[c].trainer_id
           /\ x.session_time = pc[c].session_time
           /\ pc[c].key < x.session_id

\* C14, as claimed: of two book_pt_session operations for one trainer and one
\* instant that are interleaved, the one that inserts second can succeed as
\* well: its insert is accepted, and its commit then stores a second session
\* with the same trainer_id and session_time.  Violated: the store refuses
\* the second insert of every interleaving.
C14_InterleavedBookingsBothSucceed ==
    [][\A c \in Clients :
          CollidesInterleaved(c) => pc'[c].at = "book_commit"]_vars

\* C14, amended: book_pt_session makes no check of its own before the
\* insert; the unique constraint of the store decides at the insert.  Of two
\* interleaved bookings for one trainer and one instant the second insert
\* waits for the first transaction and then fails with an integrity
\* violation and stores nothing, and no two sessions ever share trainer_id
\* and session_time, committed or not, with two processes as with one.
C14_StoreRefusesSecondBooking ==
    /\ [](Distinct("PTSession", {"trainer_id", "session_time"}))
    /\ [](\A c \in Clients :
             \A x \in Inserted(pending[c], "PTSession") :
                 /\ uq_trainer_time(db, x)
                 /\ uq_trainer_time(Uncommitted(c), x))
    /\ [][\A c \in Clients :
             Collides(c) =>
                 /\ last'.outcome = "IntegrityViolation"
                 /\ db' = db
                 /\ pending'[c] = <<>>]_vars

\* A booking was just refused by the store after an interleaving.  Every
\* identifier that can be typed is a stored row, so the refusal is the
\* unique constraint's and needs a committed session; the one session
\* stored took the last key the sequence handed out, so the refused booking
\* took its key before that session did and met it committed at its insert.
C14_Witness ==
    /\ last.op = "book_pt_session"
    /\ last.outcome = "IntegrityViolation"
    /\ Cardinality(db["Member"]) = MaxId
    /\ Cardinality(db["Trainer"]) = MaxId
    /\ \E x \in db["PTSession"] :
           /\ db["PTSession"] = {x}
           /\ x.session_id > 1
           /\ seq["PTSession"] = x.session_id + 1

====
